---------------------------- MODULE Spec2Model ----------------------------
(* A model of the WBC game assistant: the matchup resolver and the unit    *)
(* filter of wbc_game_assistant/units.py and the selection state of app.py.*)
(* Text (ability descriptions, damage-type tags, the str() of a list) is a *)
(* sequence of one-character strings, so that lower(), substring search    *)
(* and str(list) are computed as Python computes them.                     *)
EXTENDS Integers, Sequences, FiniteSets, TLC

VARIABLES
    call,           \* the last function call made: its name and arguments
    ret,            \* what that call did: raised or returned, and the value
    heap,           \* the DataFrame objects, by reference
    player_race,    \* st.session_state.player_race
    enemy_race,     \* st.session_state.enemy_race (a list, in selection order)
    p_flags,        \* the player's checkboxes: builders, t1 fliers, dragons, titans
    e_flags,        \* the enemy's checkboxes, likewise
    toggles,        \* how many times a checkbox was clicked
    browse_race,    \* the selectbox of the "Browse all units" expander
    units_cache,    \* the DataFrame object st.cache keeps for get_unit_data
    fetched         \* the two documents get_unit_data fetches, and what it builds

vars == <<call, ret, heap, player_race, enemy_race, p_flags, e_flags, toggles,
          browse_race, units_cache, fetched>>

-----------------------------------------------------------------------------
(* Bounds *)

\* the longest enemy table a direct call is given
MaxRows == 3

\* the most checkbox clicks in one session
MaxToggles == 1

\* how many of the races the expander's selectbox is set to, besides "All"
MaxBrowse == 1

\* the most units a race lists in races.json, and the most records of units.json
MaxListed == 2

-----------------------------------------------------------------------------
(* Text *)

Upper2Lower ==
    [c \in {"A","B","C","D","E","F","G","H","I","J","K","L","M",
            "N","O","P","Q","R","S","T","U","V","W","X","Y","Z"} |->
        CASE c = "A" -> "a" [] c = "B" -> "b" [] c = "C" -> "c" [] c = "D" -> "d"
          [] c = "E" -> "e" [] c = "F" -> "f" [] c = "G" -> "g" [] c = "H" -> "h"
          [] c = "I" -> "i" [] c = "J" -> "j" [] c = "K" -> "k" [] c = "L" -> "l"
          [] c = "M" -> "m" [] c = "N" -> "n" [] c = "O" -> "o" [] c = "P" -> "p"
          [] c = "Q" -> "q" [] c = "R" -> "r" [] c = "S" -> "s" [] c = "T" -> "t"
          [] c = "U" -> "u" [] c = "V" -> "v" [] c = "W" -> "w" [] c = "X" -> "x"
          [] c = "Y" -> "y" [] c = "Z" -> "z"]

\* str.lower()
PyLower(s) ==
    [i \in 1..Len(s) |-> IF s[i] \in DOMAIN Upper2Lower THEN Upper2Lower[s[i]] ELSE s[i]]

\* Python's `sub in s` on strings: substring search
PyIn(sub, s) ==
    \E i \in 0..(Len(s) - Len(sub)) : SubSeq(s, i + 1, i + Len(sub)) = sub

RECURSIVE PyJoinRepr(_)
\* ", ".join(repr(x) for x in l), repr of a str being the str in single quotes
PyJoinRepr(l) ==
    IF l = <<>> THEN <<>>
    ELSE <<"'">> \o Head(l) \o <<"'">>
         \o (IF Tail(l) = <<>> THEN <<>> ELSE <<",", " ">> \o PyJoinRepr(Tail(l)))

\* str(l) of a list of strings: "['fire', 'cold']", and "[]" for the empty list
PyStrList(l) == <<"[">> \o PyJoinRepr(l) \o <<"]">>

flying_text == <<"f","l","y","i","n","g">>

-----------------------------------------------------------------------------
(* The data: damage-type tags, unit records, the image and ability mapping *)

fire     == <<"f","i","r","e">>
cold     == <<"c","o","l","d">>
hellfire == <<"h","e","l","l","f","i","r","e">>

AttackTypes == {"ground", "air", "both"}

NoAbility == [isNone |-> TRUE, text |-> <<>>]
Ability(t) == [isNone |-> FALSE, text |-> t]

\* mappings.unit_images_and_abilities: unit id -> [image file, ability text or None]
unit_images_and_abilities ==
    [id \in {"AHBX", "AAEG", "AADB", "ATDX", "AKSW", "ABHW", "AMAX", "AOSW"} |->
        CASE id = "AHBX" -> <<"peasant.png", NoAbility>>
          [] id = "AAEG" -> <<"eagle.png", Ability(<<"F","l","y","i","n","g">>)>>
          [] id = "AADB" -> <<"dragon.png", Ability(<<"F","i","r","e",",","F","L","Y","I","N","G">>)>>
          [] id = "ATDX" -> <<"titan.png", Ability(<<"R","e","g","e","n">>)>>
          [] id = "AKSW" -> <<"swordsman.png", Ability(<<"F","l","y">>)>>
          [] id = "ABHW" -> <<"hawk.png", Ability(<<"f","l","y","i","n","g"," ","s","c","o","u","t">>)>>
          [] id = "AMAX" -> <<"axeman.png", NoAbility>>
          [] id = "AOSW" -> <<"swordsman.png", Ability(<<"R","a","g","e">>)>>]

Unit(id, race, tier, at, dt, vul, res) ==
    [id |-> id, race |-> race, tier |-> tier, attackType |-> at, damageType |-> dt,
     vulnerability |-> vul, resilience |-> res, flying |-> FALSE]

\* the rows of the dataset get_unit_data returns, in the order of units.json
\* (`flying` is the value of the column check_attack_types adds and means
\* nothing until it is written)
df_units ==
    << Unit("AHBX", "Knights",    1, "ground", cold,     <<fire>>,       <<>>),
       Unit("AAEG", "Knights",    2, "air",    fire,     <<cold, fire>>, <<hellfire>>),
       Unit("AADB", "Dwarves",    4, "both",   fire,     <<cold>>,       <<fire>>),
       Unit("ATDX", "Dwarves",    5, "ground", hellfire, <<hellfire>>,   <<cold>>),
       Unit("AKSW", "Undead",     1, "ground", fire,     <<>>,           <<>>),
       Unit("ABHW", "Barbarians", 2, "ground", cold,     <<hellfire>>,   <<cold, fire>>),
       Unit("AMAX", "Minotaurs",  3, "air",    cold,     <<fire>>,       <<>>),
       Unit("AOSW", "Orcs",       1, "ground", hellfire, <<cold>>,       <<fire, hellfire>>) >>

UnitPool == { df_units[i] : i \in 1..Len(df_units) }

-----------------------------------------------------------------------------
(* DataFrames: a table is its rows, in order, and the set of columns added *)
(* to the dataset's own; a row's `flying` is read only when the column is  *)
(* there.                                                                  *)

DataFrame(rows) == [columns |-> {}, rows |-> rows]

NoFrame == DataFrame(<<>>)

RECURSIVE MaskRows(_, _)
\* the rows at the positions where the boolean mask is true
MaskRows(rows, mask) ==
    IF rows = <<>> THEN <<>>
    ELSE (IF Head(mask) THEN <<Head(rows)>> ELSE <<>>)
         \o MaskRows(Tail(rows), Tail(mask))

\* df.loc[mask, :] : a new table of the rows the mask keeps, all columns kept
Loc(df, mask) == [columns |-> df.columns, rows |-> MaskRows(df.rows, mask)]

Elements(l) == { l[i] : i \in 1..Len(l) }

RECURSIVE DedupFirst(_)
\* list(dict.fromkeys(l)): each value once, in the order of its first occurrence
DedupFirst(l) ==
    IF l = <<>> THEN <<>>
    ELSE LET front == DedupFirst(SubSeq(l, 1, Len(l) - 1))
             last  == l[Len(l)]
         IN IF \E i \in 1..Len(front) : front[i] = last THEN front
            ELSE Append(front, last)

-----------------------------------------------------------------------------
(* wbc_game_assistant/units.py *)

\* get_unit_image, the image its <img> string embeds: the file the mapping names
get_unit_image(unit_id, unit_to_image_mapping) == unit_to_image_mapping[unit_id][1]

\* Series.str.lower().str.contains("flying") on one value: a missing value (None)
\* stays missing, anything else is True or False
StrContainsFlying(ability) ==
    IF ability.isNone THEN "None"
    ELSE IF PyIn(flying_text, PyLower(ability.text)) THEN "True" ELSE "False"

\* a missing value counted as true, as a NaN would be
NpWhere_MissingIsTrue(x) == x # "False"

\* np.where(x, True, False) on one value: the truth value of x (None is false)
NpWhere(x) == x = "True"

\* the flier test on the text as written, without lower()
player_unit_flying_CaseSensitive(player_unit, abilities) ==
    IF abilities[player_unit.id].isNone THEN FALSE
    ELSE PyIn(flying_text, abilities[player_unit.id].text)

\* checking if player unit is a flier
player_unit_flying(player_unit, abilities) ==
    IF abilities[player_unit.id].isNone THEN FALSE
    ELSE PyIn(flying_text, PyLower(abilities[player_unit.id].text))

\* a third context let through
check_contexts_Wide == {"strengths", "weaknesses", "both"}

\* the contexts check_attack_types accepts
check_contexts == {"strengths", "weaknesses"}

check_attack_types(player_unit, enemy_df, abilities_dict, check_context) ==
    IF check_context \notin check_contexts
    THEN [raised |-> "ValueError", enemy_df |-> enemy_df, result |-> NoFrame]
    ELSE
    LET abilities == [id \in DOMAIN abilities_dict |-> abilities_dict[id][2]]
        \* the argument itself gets the column
        marked == [columns |-> enemy_df.columns \cup {"flying"},
                   rows |-> [i \in 1..Len(enemy_df.rows) |->
                       [enemy_df.rows[i] EXCEPT
                           !.flying = NpWhere(StrContainsFlying(abilities[enemy_df.rows[i].id]))]]]
        n == Len(marked.rows)
        NotFlying == [i \in 1..n |-> ~marked.rows[i].flying]
        Flying == [i \in 1..n |-> marked.rows[i].flying]
        GroundOrBoth == [i \in 1..n |-> marked.rows[i].attackType \in {"ground", "both"}]
        AirOrBoth == [i \in 1..n |-> marked.rows[i].attackType \in {"air", "both"}]
    IN  IF check_context = "strengths"
        THEN IF player_unit.attackType = "ground"
             THEN [raised |-> "", enemy_df |-> marked, result |-> Loc(marked, NotFlying)]
             ELSE IF player_unit.attackType = "air"
             THEN [raised |-> "", enemy_df |-> marked, result |-> Loc(marked, Flying)]
             ELSE IF player_unit.attackType = "both"
             \* enemy_df.copy()
             THEN [raised |-> "", enemy_df |-> marked, result |-> marked]
             \* enemy_df_filtered was never assigned
             ELSE [raised |-> "UnboundLocalError", enemy_df |-> marked, result |-> NoFrame]
        ELSE IF check_context = "weaknesses"
        THEN IF player_unit_flying(player_unit, abilities) = FALSE
             THEN [raised |-> "", enemy_df |-> marked, result |-> Loc(marked, GroundOrBoth)]
             ELSE [raised |-> "", enemy_df |-> marked, result |-> Loc(marked, AirOrBoth)]
        \* enemy_df_filtered was never assigned
        ELSE [raised |-> "UnboundLocalError", enemy_df |-> marked, result |-> NoFrame]

\* the empty list rendered like any other, as the empty string
Render_NoPlaceholder(ids, raised, enemy_df) ==
    [raised |-> raised, enemy_df |-> enemy_df, ids |-> ids, nbsp |-> FALSE,
     html |-> DedupFirst([i \in 1..Len(ids) |->
                 get_unit_image(ids[i], unit_images_and_abilities)])]

\* the ids a resolver lists become <img> strings, one per id, and equal strings
\* are merged (dict.fromkeys); an empty list is answered by "&nbsp"
Render(ids, raised, enemy_df) ==
    [raised |-> raised, enemy_df |-> enemy_df, ids |-> ids,
     nbsp |-> (raised = "" /\ Len(ids) = 0),
     html |-> DedupFirst([i \in 1..Len(ids) |->
                 get_unit_image(ids[i], unit_images_and_abilities)])]

Ids(rows) == [i \in 1..Len(rows) |-> rows[i].id]

\* the strength types get_strong_against accepts
strength_types == {"resistance", "enemy_vulnerability"}

get_strong_against(player_unit, enemy_df, strength_type) ==
    IF strength_type \notin strength_types
    THEN Render(<<>>, "ValueError", enemy_df)
    ELSE
    LET gate == check_attack_types(player_unit, enemy_df,
                                   unit_images_and_abilities, "strengths")
        \* enemy_df["vulnerability"].astype(str).str.contains(player_unit.damageType):
        \* a search for the tag (a pattern of letters only) in the text of the list
        Vulnerable(e) == PyIn(player_unit.damageType, PyStrList(e.vulnerability))
        \* enemy_unit.damageType in str(player_unit.resilience)
        Resisted(e) == PyIn(e.damageType, PyStrList(player_unit.resilience))
    IN  IF gate.raised # "" THEN Render(<<>>, gate.raised, gate.enemy_df)
        ELSE IF strength_type = "enemy_vulnerability"
        THEN Render(Ids(SelectSeq(gate.result.rows, Vulnerable)), "", gate.enemy_df)
        ELSE IF strength_type = "resistance"
        THEN Render(Ids(SelectSeq(gate.result.rows, Resisted)), "", gate.enemy_df)
        \* strong_against was never assigned
        ELSE Render(<<>>, "UnboundLocalError", gate.enemy_df)

get_weak_against(player_unit, enemy_df) ==
    LET gate == check_attack_types(player_unit, enemy_df,
                                   unit_images_and_abilities, "weaknesses")
        \* enemy_unit.damageType in str(player_unit.vulnerability)
        Hurts(e) == PyIn(e.damageType, PyStrList(player_unit.vulnerability))
    IN  IF gate.raised # "" THEN Render(<<>>, gate.raised, gate.enemy_df)
        ELSE Render(Ids(SelectSeq(gate.result.rows, Hurts)), "", gate.enemy_df)

builders_list == {"AHBX", "ABBX", "AEBX", "AEAX", "AUBX", "ADBX",
                  "AFBX", "ALBX", "AVBX", "AABX", "AOBX", "ARBX"}
t1_fliers_list == {"AAEG", "AAPH", "AALH", "AABA", "AADF", "AAFB", "AAWA"}
dragons_list == {"AADB", "AADR", "AADG", "AADW", "AADC", "AADU"}
titans_list == {"ATDX", "ATPX", "ATEX", "ATHX", "ATBX", "ATFX", "ATMX",
                "ATLX", "ATWX", "ATVX", "ATKX", "ATAX", "ATOX", "ATGX",
                "ATRX", "ATUX"}

\* the exclusion applied when the box is ticked instead of when it is not
Exclude_Inverted(step, flag, id_list) ==
    LET NotListed == [i \in 1..Len(step.df.rows) |-> step.df.rows[i].id \notin id_list]
    IN  IF flag = TRUE THEN [same |-> FALSE, df |-> Loc(step.df, NotListed)]
        ELSE step

\* one `if flag is not True: units_df = units_df.loc[~isin(list), :]` step: the
\* table it leaves in units_df, and whether that is still the object it was given
Exclude(step, flag, id_list) ==
    LET NotListed == [i \in 1..Len(step.df.rows) |-> step.df.rows[i].id \notin id_list]
    IN  IF flag # TRUE THEN [same |-> FALSE, df |-> Loc(step.df, NotListed)]
        ELSE step

\* filter_units: the table returned and whether it is the argument object itself
filter_units(units_df, builders, t1_fliers, dragons, titans) ==
    Exclude(Exclude(Exclude(Exclude([same |-> TRUE, df |-> units_df],
        builders, builders_list), t1_fliers, t1_fliers_list),
        dragons, dragons_list), titans, titans_list)

-----------------------------------------------------------------------------
(* Direct calls of the functions of units.py. The caller's table is the    *)
(* object "arg"; a table the call creates is the object "out". A call is   *)
(* made with nothing pending, and its result is dropped before the next.   *)

\* the enemy tables a direct call is given: up to MaxRows rows of the dataset,
\* in any order, a row possibly more than once
Tables == UNION { [1..n -> UnitPool] : n \in 0..MaxRows }

NoUnit == Unit("", "", 0, "", <<>>, <<>>, <<>>)

NoCall == [fn |-> "none", player_unit |-> NoUnit, enemy_df |-> NoFrame,
           mode |-> "", flags |-> <<TRUE, TRUE, TRUE, TRUE>>]

NoRet == [raised |-> "", ref |-> "none", ids |-> <<>>, nbsp |-> FALSE, html |-> <<>>]

-----------------------------------------------------------------------------
(* load_data.get_unit_data on the two documents it fetches: races.json, a  *)
(* list of races each with the units it lists (tier and id), and           *)
(* units.json, a list of unit records.                                     *)

\* the ids of the documents: a builder and the guardian skull
DocIds == {"AHBX", "ASKL"}

\* the lists of at most n elements of S
SeqsUpTo(S, n) == UNION { [1..k -> S] : k \in 0..n }

\* the races.json documents: two races, each listing at most MaxListed units
ResponseRaces ==
    LET Listed == SeqsUpTo([tier : {1, 2}, id : DocIds], MaxListed)
    IN  { << [name |-> "Knights", units |-> k], [name |-> "Dwarves", units |-> d] >> :
            k \in Listed, d \in Listed }

\* the units.json documents: at most MaxListed records
UnitsJson == SeqsUpTo([id : DocIds], MaxListed)

RECURSIVE Flatten(_)
\* the concatenation of a list of lists
Flatten(ls) == IF ls = <<>> THEN <<>> ELSE Head(ls) \o Flatten(Tail(ls))

\* df_races_with_unit_ids: a row (race, tier, unit_id) for every unit a race
\* lists, race by race
RacesWithUnitIds(response_races) ==
    Flatten([r \in 1..Len(response_races) |->
        [u \in 1..Len(response_races[r].units) |->
            [race |-> response_races[r].name,
             tier |-> response_races[r].units[u].tier,
             unit_id |-> response_races[r].units[u].id]]])

\* DataFrame.merge(right, left_on="id", right_on="unit_id", how="left") and the
\* drop of unit_id: in the order of the left rows, a row for every right row
\* of that id, and a row of missing race and tier where there is none
MergeLeft(left, right) ==
    Flatten([l \in 1..Len(left) |->
        LET Matches(x) == x.unit_id = left[l].id
            matching == SelectSeq(right, Matches)
        IN  IF matching = <<>>
            THEN << [id |-> left[l].id, race |-> "NaN", tier |-> "NaN"] >>
            ELSE [m \in 1..Len(matching) |->
                    [id |-> left[l].id, race |-> matching[m].race,
                     tier |-> matching[m].tier]]])

\* one row for a unit, whatever the number of races that list it: the race
\* rows are reduced to the first of each unit id before the merge
get_unit_data_FirstRace(response_races, units_json) ==
    LET right == RacesWithUnitIds(response_races)
        IsFirst == [i \in 1..Len(right) |->
                        \A j \in 1..(i - 1) : right[j].unit_id # right[i].unit_id]
        HasRace(x) == x.race # "NaN"
    IN  SelectSeq(MergeLeft(units_json, MaskRows(right, IsFirst)), HasRace)

\* get_unit_data: the rows of the merge that have a race
get_unit_data(response_races, units_json) ==
    LET HasRace(x) == x.race # "NaN"
    IN  SelectSeq(MergeLeft(units_json, RacesWithUnitIds(response_races)), HasRace)

NotBuilt == << [id |-> "", race |-> "NaN", tier |-> "NaN"] >>

NoFetch == [response_races |-> <<>>, units_json |-> <<>>, df_units |-> NotBuilt]

-----------------------------------------------------------------------------
(* app.py: the script runs from top to bottom after every interaction with *)
(* a widget, on the widgets' values (the session state).                   *)

\* load_data.get_races: the races of the dataset, each once, in order of appearance
get_races(source_df) == DedupFirst([i \in 1..Len(source_df) |-> source_df[i].race])

races == get_races(df_units)

\* the race names in the order string comparison gives them
RaceOrder == <<"Barbarians", "Dwarves", "Knights", "Minotaurs", "Orcs", "Undead">>

RaceRank(r) == CHOOSE i \in 1..Len(RaceOrder) : RaceOrder[i] = r

\* whether row a sorts before row b by the columns `by`
RowLess(a, b, by) ==
    IF by = <<"race", "tier">>
    THEN \/ RaceRank(a.race) < RaceRank(b.race)
         \/ a.race = b.race /\ a.tier < b.tier
    ELSE a.tier < b.tier

RECURSIVE SortValues(_, _)
\* DataFrame.sort_values(by): the rows in ascending order of their key, rows of
\* equal key in the order they had
SortValues(rows, by) ==
    IF rows = <<>> THEN <<>>
    ELSE LET sorted == SortValues(SubSeq(rows, 1, Len(rows) - 1), by)
             last == rows[Len(rows)]
             \* the rows that stay before `last`
             n == Cardinality({ i \in 1..Len(sorted) : ~RowLess(last, sorted[i], by) })
         IN  SubSeq(sorted, 1, n) \o <<last>> \o SubSeq(sorted, n + 1, Len(sorted))

\* create_unit_traits: the three resolver calls on one enemy table, which comes
\* out of them with the column check_attack_types writes
create_unit_traits(unit_row, enemy_df) ==
    LET resistance == get_strong_against(unit_row, enemy_df, "resistance")
        enemy_vulnerability ==
            get_strong_against(unit_row, resistance.enemy_df, "enemy_vulnerability")
        weak == get_weak_against(unit_row, enemy_vulnerability.enemy_df)
    IN  weak.enemy_df

RECURSIVE RenderUnits(_, _)
\* the loop over player_units_df
RenderUnits(player_rows, enemy_df) ==
    IF player_rows = <<>> THEN enemy_df
    ELSE RenderUnits(Tail(player_rows), create_unit_traits(Head(player_rows), enemy_df))

\* the mask units_df["race"].isin(race_list) gives
RaceMask(units_df, race_list) ==
    [i \in 1..Len(units_df.rows) |-> units_df.rows[i].race \in Elements(race_list)]

\* a table made from units_df without leaving it alone: a mask that keeps
\* every row gives units_df itself, sorted in place
SelectionIsUnitsDf_WhenAllKept(units_df, mask) == \A i \in DOMAIN mask : mask[i]

\* whether units_df[mask].sort_values(by) is the object units_df itself:
\* boolean indexing returns a new DataFrame, and sort_values another
SelectionIsUnitsDf(units_df, mask) == FALSE

\* units_df[mask].sort_values(by)
Selection(units_df, mask, by) ==
    [columns |-> units_df.columns, rows |-> SortValues(Loc(units_df, mask).rows, by)]

\* the mask of the table the expander shows: every row for "All"
BrowseMask(units_df, race) ==
    IF race = "All" THEN [i \in 1..Len(units_df.rows) |-> TRUE]
    ELSE RaceMask(units_df, <<race>>)

\* the table the expander shows: units_df.sort_values(["race", "tier"]) for
\* "All", units_df[units_df["race"] == race].sort_values("tier") for a race
browse_units_df(units_df, race) ==
    Selection(units_df, BrowseMask(units_df, race),
              IF race = "All" THEN <<"race", "tier">> ELSE <<"tier">>)

\* the script from the widgets' values on: the two selections, the filters and
\* the loop; `error` is the st.error of the enemy column, `handed` whether
\* create_unit_traits was called at all, `enemy_units_df` the table it was given
RunScript(units_df, p_race, e_races, pf, ef) ==
    LET player_units_df ==
            filter_units(Selection(units_df, RaceMask(units_df, <<p_race>>), <<"tier">>),
                         pf[1], pf[2], pf[3], pf[4]).df
        enemy_units_df ==
            filter_units(Selection(units_df, RaceMask(units_df, e_races), <<"race", "tier">>),
                         ef[1], ef[2], ef[3], ef[4]).df
    IN  [error |-> Len(e_races) > 5,
         handed |-> player_units_df.rows # <<>>,
         enemy_units_df |-> RenderUnits(player_units_df.rows, enemy_units_df)]

\* the table the loop leaves behind in the object it was given: every
\* check_attack_types call assigns the whole flying column anew, so the column
\* is the one written by the last call, get_weak_against of the last player unit
AfterLoop(player_rows, enemy_df) ==
    IF player_rows = <<>> THEN enemy_df
    ELSE get_weak_against(player_rows[Len(player_rows)], enemy_df).enemy_df

\* the object units_df after one run of the script: every table the script
\* works on is derived from it, and a write into a table that is units_df
\* itself is a write into the cached object
UnitsAfterRun(units_df, b_race, p_race, e_races, pf, ef) ==
    LET units_1 == IF SelectionIsUnitsDf(units_df, BrowseMask(units_df, b_race))
                   THEN browse_units_df(units_df, b_race)
                   ELSE units_df
        player_units_df ==
            filter_units(Selection(units_1, RaceMask(units_1, <<p_race>>), <<"tier">>),
                         pf[1], pf[2], pf[3], pf[4]).df
        selected == Selection(units_1, RaceMask(units_1, e_races), <<"race", "tier">>)
    IN  IF SelectionIsUnitsDf(units_1, RaceMask(units_1, e_races))
        THEN IF filter_units(selected, ef[1], ef[2], ef[3], ef[4]).same
             \* the loop writes into units_df
             THEN AfterLoop(player_units_df.rows, selected)
             ELSE selected
        ELSE units_1

AllTrue == <<TRUE, TRUE, TRUE, TRUE>>

\* a session just started: the first run of the script is over
Started ==
    /\ call = NoCall
    /\ ret = NoRet
    /\ heap = [arg |-> NoFrame, out |-> NoFrame]
    /\ player_race = races[1]
    /\ enemy_race = <<>>
    /\ p_flags = AllTrue
    /\ e_flags = AllTrue
    /\ toggles = 0
    /\ browse_race = "All"
    /\ units_cache = UnitsAfterRun(DataFrame(df_units), "All", races[1], <<>>,
                                   AllTrue, AllTrue)

Init ==
    /\ Started
    /\ fetched = NoFetch

session == <<player_race, enemy_race, p_flags, e_flags, toggles>>

\* what the run of the script that follows every interaction renders: the
\* script keeps nothing but the session state, so its output is a function of it
page == RunScript(units_cache, player_race, enemy_race, p_flags, e_flags)

calls == <<call, ret, heap>>

\* the script runs again on the new widget values, with the cached units_df
Rerun ==
    units_cache' = UnitsAfterRun(units_cache, browse_race', player_race',
                                 enemy_race', p_flags', e_flags')

\* the expander's selectbox is set to "All" or to a race
BrowseRace ==
    \E r \in {"All"} \cup { races[i] : i \in 1..MaxBrowse } :
        /\ r # browse_race
        /\ browse_race' = r
        /\ UNCHANGED <<session, calls, fetched>>
        /\ Rerun

\* the player selectbox is set to another race
SelectPlayerRace ==
    \E r \in Elements(races) :
        /\ r # player_race
        /\ player_race' = r
        /\ UNCHANGED <<enemy_race, p_flags, e_flags, toggles, calls, browse_race, fetched>>
        /\ Rerun

\* a race is added to the enemy multiselect
SelectEnemyRace ==
    \E r \in Elements(races) \ Elements(enemy_race) :
        /\ enemy_race' = Append(enemy_race, r)
        /\ UNCHANGED <<player_race, p_flags, e_flags, toggles, calls, browse_race, fetched>>
        /\ Rerun

\* a race is taken out of the enemy multiselect
DeselectEnemyRace ==
    \E r \in Elements(enemy_race) :
        LET Other(x) == x # r
        IN  /\ enemy_race' = SelectSeq(enemy_race, Other)
            /\ UNCHANGED <<player_race, p_flags, e_flags, toggles, calls, browse_race, fetched>>
            /\ Rerun

\* a checkbox of the player's side is clicked
TogglePlayerCheckbox ==
    /\ toggles < MaxToggles
    /\ \E i \in 1..4 :
        /\ p_flags' = [p_flags EXCEPT ![i] = ~p_flags[i]]
        /\ toggles' = toggles + 1
        /\ UNCHANGED <<player_race, enemy_race, e_flags, calls, browse_race, fetched>>
        /\ Rerun

\* a checkbox of the enemy's side is clicked
ToggleEnemyCheckbox ==
    /\ toggles < MaxToggles
    /\ \E i \in 1..4 :
        /\ e_flags' = [e_flags EXCEPT ![i] = ~e_flags[i]]
        /\ toggles' = toggles + 1
        /\ UNCHANGED <<player_race, enemy_race, p_flags, calls, browse_race, fetched>>
        /\ Rerun

\* a swap that keeps the other enemy races: the player's race takes the
\* place of the first enemy race
Reversed_KeepOthers(p_race, e_races) ==
    IF Len(e_races) > 0
    THEN [player_race |-> e_races[1], enemy_race |-> <<p_race>> \o Tail(e_races)]
    ELSE [player_race |-> p_race, enemy_race |-> e_races]

\* the session state after `if reverse and len(st.session_state.enemy_race) > 0`
\* with the button pressed
Reversed(p_race, e_races) ==
    IF Len(e_races) > 0
    THEN [player_race |-> e_races[1], enemy_race |-> <<p_race>>]
    ELSE [player_race |-> p_race, enemy_race |-> e_races]

\* the "Reverse matchup" button is pressed
PressReverse ==
    /\ player_race' = Reversed(player_race, enemy_race).player_race
    /\ enemy_race' = Reversed(player_race, enemy_race).enemy_race
    /\ UNCHANGED <<p_flags, e_flags, toggles, calls, browse_race, fetched>>
    /\ Rerun

NextApp ==
    \/ SelectPlayerRace
    \/ SelectEnemyRace
    \/ DeselectEnemyRace
    \/ TogglePlayerCheckbox
    \/ ToggleEnemyCheckbox
    \/ PressReverse
    \/ BrowseRace

SpecApp == Init /\ [][NextApp]_vars


CheckAttackTypesCall ==
    /\ call.fn = "none"
    /\ \E P \in UnitPool, E \in Tables, ctx \in {"strengths", "weaknesses", "both"} :
        LET r == check_attack_types(P, DataFrame(E), unit_images_and_abilities, ctx)
        IN  /\ call' = [fn |-> "check_attack_types", player_unit |-> P,
                        enemy_df |-> DataFrame(E), mode |-> ctx,
                        flags |-> NoCall.flags]
            /\ ret' = [NoRet EXCEPT !.raised = r.raised,
                                    !.ref = IF r.raised = "" THEN "out" ELSE "none"]
            /\ heap' = [arg |-> r.enemy_df, out |-> r.result]
            /\ UNCHANGED <<session, browse_race, units_cache, fetched>>

ResolverRet(r) ==
    [raised |-> r.raised, ref |-> "none", ids |-> r.ids, nbsp |-> r.nbsp,
     html |-> IF r.raised = "" /\ ~r.nbsp THEN r.html ELSE <<>>]

GetStrongAgainstCall ==
    /\ call.fn = "none"
    /\ \E P \in UnitPool, E \in Tables,
       st \in {"resistance", "enemy_vulnerability", "vulnerability"} :
        LET r == get_strong_against(P, DataFrame(E), st)
        IN  /\ call' = [fn |-> "get_strong_against", player_unit |-> P,
                        enemy_df |-> DataFrame(E), mode |-> st,
                        flags |-> NoCall.flags]
            /\ ret' = ResolverRet(r)
            /\ heap' = [arg |-> r.enemy_df, out |-> NoFrame]
            /\ UNCHANGED <<session, browse_race, units_cache, fetched>>

GetWeakAgainstCall ==
    /\ call.fn = "none"
    /\ \E P \in UnitPool, E \in Tables :
        LET r == get_weak_against(P, DataFrame(E))
        IN  /\ call' = [fn |-> "get_weak_against", player_unit |-> P,
                        enemy_df |-> DataFrame(E), mode |-> "",
                        flags |-> NoCall.flags]
            /\ ret' = ResolverRet(r)
            /\ heap' = [arg |-> r.enemy_df, out |-> NoFrame]
            /\ UNCHANGED <<session, browse_race, units_cache, fetched>>

FilterUnitsCall ==
    /\ call.fn = "none"
    /\ \E E \in Tables, b \in BOOLEAN, t \in BOOLEAN, d \in BOOLEAN, ti \in BOOLEAN :
        LET r == filter_units(DataFrame(E), b, t, d, ti)
        IN  /\ call' = [fn |-> "filter_units", player_unit |-> NoUnit,
                        enemy_df |-> DataFrame(E), mode |-> "",
                        flags |-> <<b, t, d, ti>>]
            /\ ret' = [NoRet EXCEPT !.ref = IF r.same THEN "arg" ELSE "out"]
            /\ heap' = [arg |-> DataFrame(E),
                        out |-> IF r.same THEN NoFrame ELSE r.df]
            /\ UNCHANGED <<session, browse_race, units_cache, fetched>>

\* the table filter_units returned is handed on to check_attack_types, as app.py
\* does through create_unit_traits: the column is written into that object
CheckAttackTypesOnFiltered ==
    /\ call.fn = "filter_units"
    /\ \E P \in UnitPool, ctx \in {"strengths", "weaknesses"} :
        LET r == check_attack_types(P, heap[ret.ref], unit_images_and_abilities, ctx)
        IN  /\ call' = [call EXCEPT !.fn = "filter_units+check_attack_types"]
            /\ heap' = [heap EXCEPT ![ret.ref] = r.enemy_df]
            /\ UNCHANGED <<ret, session, browse_race, units_cache, fetched>>

\* the caller drops the result and its tables
Discard ==
    /\ call.fn # "none"
    /\ call' = NoCall
    /\ ret' = NoRet
    /\ heap' = [arg |-> NoFrame, out |-> NoFrame]
    /\ UNCHANGED <<session, browse_race, units_cache, fetched>>

Next ==
    \/ CheckAttackTypesCall
    \/ GetStrongAgainstCall
    \/ GetWeakAgainstCall
    \/ FilterUnitsCall
    \/ CheckAttackTypesOnFiltered
    \/ Discard

Spec == Init /\ [][Next]_vars

\* the documents get_unit_data is given
InitLoad ==
    /\ Started
    /\ \E r \in ResponseRaces, u \in UnitsJson :
        fetched = [response_races |-> r, units_json |-> u, df_units |-> NotBuilt]

\* get_unit_data builds the table from them
GetUnitData ==
    /\ fetched.df_units = NotBuilt
    /\ fetched' = [fetched EXCEPT
            !.df_units = get_unit_data(fetched.response_races, fetched.units_json)]
    /\ UNCHANGED <<session, calls, browse_race, units_cache>>

NextLoad == GetUnitData

SpecLoad == InitLoad /\ [][NextLoad]_vars

-----------------------------------------------------------------------------
(* What the claims speak of *)

\* the units of the dataset whose ability text contains "flying" in some case:
\* the eagle ("Flying"), the dragon ("Fire,FLYING"), the hawk ("flying scout")
FlierIds == {"AAEG", "AADB", "ABHW"}

\* the rows of a table without the added column
Bare(rows) == [i \in 1..Len(rows) |-> [rows[i] EXCEPT !.flying = FALSE]]

\* the strengths gate as stated: ground attackers reach the non-fliers, air
\* attackers the fliers, attackers of both everyone
PassesStrengths(P, e) ==
    \/ P.attackType = "ground" /\ e.id \notin FlierIds
    \/ P.attackType = "air" /\ e.id \in FlierIds
    \/ P.attackType = "both"

\* the weaknesses gate as stated: a non-flier is reached by ground and both
\* attackers, a flier by air and both attackers
PassesWeaknesses(P, e) ==
    \/ P.id \notin FlierIds /\ e.attackType \in {"ground", "both"}
    \/ P.id \in FlierIds /\ e.attackType \in {"air", "both"}

\* a resolver was called with arguments it accepts
ResolverCalled ==
    \/ call.fn = "get_strong_against" /\ call.mode \in {"resistance", "enemy_vulnerability"}
    \/ call.fn = "get_weak_against"

\* C1: check_attack_types(P, E, abilities, "strengths") returns exactly the rows
\* of E that are non-fliers when P attacks ground, fliers when P attacks air, and
\* all rows when P attacks both, a row being a flier exactly when its ability
\* text contains "flying" in any case (no ability text: not a flier); and
\* get_strong_against for a ground-only attacker lists no flier.
C1_StrengthsGate ==
    /\ (call.fn = "check_attack_types" /\ call.mode = "strengths") =>
          LET Keep(e) == PassesStrengths(call.player_unit, e)
          IN  /\ ret.raised = ""
              /\ Bare(heap.out.rows) = SelectSeq(call.enemy_df.rows, Keep)
    /\ (ResolverCalled /\ call.fn = "get_strong_against"
            /\ call.player_unit.attackType = "ground") =>
          \A i \in 1..Len(ret.ids) : ret.ids[i] \notin FlierIds

\* a ground attacker was given fliers and a unit without ability text, and the
\* gate kept some rows and dropped others
C1_Witness ==
    /\ call.fn = "check_attack_types" /\ call.mode = "strengths"
    /\ call.player_unit.attackType = "ground"
    /\ \E i, j \in 1..Len(call.enemy_df.rows) :
          /\ call.enemy_df.rows[i].id \in FlierIds
          /\ unit_images_and_abilities[call.enemy_df.rows[j].id][2].isNone
    /\ Len(heap.out.rows) > 0
    /\ Len(heap.out.rows) < Len(call.enemy_df.rows)

\* C2: check_attack_types(P, E, abilities, "weaknesses") decides from P's own
\* ability text whether P is a flier (its attackType plays no role) and returns
\* exactly the rows of E attacking ground or both when P is no flier, air or both
\* when P is one; and get_weak_against lists no pure-air attacker for a
\* non-flier and no ground-only attacker for a flier.
C2_WeaknessesGate ==
    /\ (call.fn = "check_attack_types" /\ call.mode = "weaknesses") =>
          LET Keep(e) == PassesWeaknesses(call.player_unit, e)
          IN  /\ ret.raised = ""
              /\ Bare(heap.out.rows) = SelectSeq(call.enemy_df.rows, Keep)
    /\ (call.fn = "get_weak_against") =>
          \A i \in 1..Len(ret.ids) : \A k \in 1..Len(call.enemy_df.rows) :
              call.enemy_df.rows[k].id = ret.ids[i] =>
                  PassesWeaknesses(call.player_unit, call.enemy_df.rows[k])

\* a flier that attacks ground only (the hawk) was checked against a ground-only
\* and a pure-air attacker, and only some rows were kept
C2_Witness ==
    /\ call.fn = "check_attack_types" /\ call.mode = "weaknesses"
    /\ call.player_unit.id \in FlierIds
    /\ call.player_unit.attackType = "ground"
    /\ \E i, j \in 1..Len(call.enemy_df.rows) :
          /\ call.enemy_df.rows[i].attackType = "ground"
          /\ call.enemy_df.rows[j].attackType = "air"
    /\ Len(heap.out.rows) > 0
    /\ Len(heap.out.rows) < Len(call.enemy_df.rows)

\* C3: get_strong_against(P, E, "enemy_vulnerability") lists exactly the enemies
\* that pass the strengths gate and whose vulnerability list has P.damageType as
\* an element.
C3_EnemyVulnerabilityExact ==
    (call.fn = "get_strong_against" /\ call.mode = "enemy_vulnerability") =>
        LET Qualifies(e) == /\ PassesStrengths(call.player_unit, e)
                            /\ call.player_unit.damageType \in Elements(e.vulnerability)
        IN  /\ ret.raised = ""
            /\ ret.ids = Ids(SelectSeq(call.enemy_df.rows, Qualifies))

\* C4: get_strong_against(P, E, "resistance") lists exactly the enemies passing
\* the strengths gate whose damageType is an element of P.resilience, and
\* get_weak_against(P, E) exactly those passing the weaknesses gate whose
\* damageType is an element of P.vulnerability; an empty set of P gives an
\* empty result.
C4_OwnSetsExact ==
    /\ (call.fn = "get_strong_against" /\ call.mode = "resistance") =>
          LET Qualifies(e) == /\ PassesStrengths(call.player_unit, e)
                              /\ e.damageType \in Elements(call.player_unit.resilience)
          IN  /\ ret.raised = ""
              /\ ret.ids = Ids(SelectSeq(call.enemy_df.rows, Qualifies))
              /\ call.player_unit.resilience = <<>> => ret.nbsp
    /\ (call.fn = "get_weak_against") =>
          LET Qualifies(e) == /\ PassesWeaknesses(call.player_unit, e)
                              /\ e.damageType \in Elements(call.player_unit.vulnerability)
          IN  /\ ret.raised = ""
              /\ ret.ids = Ids(SelectSeq(call.enemy_df.rows, Qualifies))
              /\ call.player_unit.vulnerability = <<>> => ret.nbsp

\* C5: the output of a resolver has one entry for each distinct id it lists,
\* never one entry for two different ids, in the order of the ids' first
\* occurrence.
C5_DedupById ==
    ResolverCalled =>
        LET distinct == DedupFirst(ret.ids)
        IN  /\ Len(ret.html) = Len(distinct)
            /\ \A k \in 1..Len(ret.html) :
                  k <= Len(distinct) =>
                      ret.html[k] = get_unit_image(distinct[k], unit_images_and_abilities)

\* C6: for a player unit attacking ground, air or both and any enemy table, the
\* empty one and ones of units without ability text included, the resolvers
\* raise nothing, and when they list no enemy they return the placeholder.
C6_Total ==
    (ResolverCalled /\ call.player_unit.attackType \in AttackTypes) =>
        /\ ret.raised = ""
        /\ ret.ids = <<>> => (ret.nbsp /\ ret.html = <<>>)
        /\ call.enemy_df.rows = <<>> => ret.nbsp
        /\ ret.ids # <<>> => (~ret.nbsp /\ ret.html # <<>>)

\* a resolver was given a non-empty table of units without ability text and
\* returned the placeholder
C6_Witness ==
    /\ ResolverCalled
    /\ call.enemy_df.rows # <<>>
    /\ \A k \in 1..Len(call.enemy_df.rows) :
          unit_images_and_abilities[call.enemy_df.rows[k].id][2].isNone
    /\ ret.nbsp

\* C7: a strength_type other than "resistance" and "enemy_vulnerability", or a
\* check_context other than "strengths" and "weaknesses", raises ValueError with
\* the enemy table as it was given and nothing returned.
C7_InvalidArgument ==
    (\/ call.fn = "get_strong_against"
            /\ call.mode \notin {"resistance", "enemy_vulnerability"}
     \/ call.fn = "check_attack_types"
            /\ call.mode \notin {"strengths", "weaknesses"}) =>
        /\ ret.raised = "ValueError"
        /\ heap.arg = call.enemy_df
        /\ heap.out = NoFrame
        /\ ret.ref = "none" /\ ret.ids = <<>> /\ ret.html = <<>> /\ ~ret.nbsp

\* check_attack_types was called with an unknown context on a non-empty table
C7_Witness ==
    /\ call.fn = "check_attack_types"
    /\ call.mode = "both"
    /\ call.enemy_df.rows # <<>>
    /\ ret.raised = "ValueError"

\* the four categories in the order filter_units takes them
CategoryLists == <<builders_list, t1_fliers_list, dragons_list, titans_list>>

\* the ids of the categories whose flag is not true
Disabled(flags) == UNION { IF flags[i] THEN {} ELSE CategoryLists[i] : i \in 1..4 }

\* the four exclusions applied in another order
FilterInOrder(df, flags, order) ==
    Exclude(Exclude(Exclude(Exclude([same |-> TRUE, df |-> df],
        flags[order[1]], CategoryLists[order[1]]),
        flags[order[2]], CategoryLists[order[2]]),
        flags[order[3]], CategoryLists[order[3]]),
        flags[order[4]], CategoryLists[order[4]])

Orders == { o \in [1..4 -> 1..4] : \A i, j \in 1..4 : o[i] = o[j] => i = j }

\* the table the last call returned
Returned == heap[ret.ref]

\* C8: filter_units returns exactly the rows whose id is in no list of a
\* category whose flag is false, in their order; with all flags true every row
\* stays; the result is the same in whatever order the four exclusions are
\* applied, and filtering it again with the same flags changes nothing.
C8_FilterExact ==
    (call.fn = "filter_units") =>
        LET Keep(u) == u.id \notin Disabled(call.flags)
            f == call.flags
        IN  /\ Returned.rows = SelectSeq(call.enemy_df.rows, Keep)
            /\ (\A i \in 1..4 : f[i]) => Returned.rows = call.enemy_df.rows
            /\ \A o \in Orders : FilterInOrder(call.enemy_df, f, o).df = Returned
            /\ filter_units(Returned, f[1], f[2], f[3], f[4]).df = Returned

\* a table with a dragon, a titan and a unit of no category was filtered with
\* dragons off and titans on: only the dragon went
C8_Witness ==
    /\ call.fn = "filter_units"
    /\ call.flags = <<TRUE, TRUE, FALSE, TRUE>>
    /\ Ids(call.enemy_df.rows) = <<"ATDX", "AADB", "AKSW">>
    /\ Ids(Returned.rows) = <<"ATDX", "AKSW">>

\* C9: filter_units leaves its argument as it was and returns a table that is
\* another object than its argument, whatever the flags, so that a column
\* check_attack_types later writes into the returned table does not show in
\* the argument.
C9_NewTable ==
    /\ (call.fn = "filter_units") =>
          /\ heap.arg = call.enemy_df
          /\ ret.ref # "arg"
    /\ (call.fn = "filter_units+check_attack_types") =>
          heap.arg = call.enemy_df

\* C10: the enemy table handed to the resolvers holds units of at most five
\* races, whatever races were selected.
C10_AtMostFiveFactions ==
    LET rendered == page
        rows == rendered.enemy_units_df.rows
    IN  rendered.handed =>
            Cardinality({ rows[i].race : i \in 1..Len(rows) }) <= 5

\* C11: the cached unit registry is read-only after load. After any sequence
\* of interactions (browsing, race selection, checkbox toggles, reverse
\* matchup), each followed by a run of the script with its get_strong_against
\* and get_weak_against calls, the object get_unit_data returns from the cache
\* has the rows, the columns and the values it was built with; the flying
\* column check_attack_types writes is never among them.
C11_RegistryReadOnly ==
    /\ units_cache = DataFrame(df_units)
    /\ "flying" \notin units_cache.columns
    /\ \A i \in 1..Len(units_cache.rows) : units_cache.rows[i].flying = FALSE

\* a run that wrote the column into the table it rendered from, a flier
\* among its rows, after browsing and a checkbox click
C11_Witness ==
    LET rendered == page
        rows == rendered.enemy_units_df.rows
    IN  /\ rendered.handed
        /\ "flying" \in rendered.enemy_units_df.columns
        /\ \E i \in 1..Len(rows) : rows[i].flying
        /\ browse_race # "All"
        /\ toggles > 0

\* whether get_unit_data has built its table
Built == fetched.df_units # NotBuilt

\* how many rows of a table have the id, under the column named
RowsOfId(rows, id) == Cardinality({ i \in 1..Len(rows) : rows[i].id = id })

\* how many times races.json lists the id, all races together
Listings(id) ==
    LET listed == RacesWithUnitIds(fetched.response_races)
    IN  Cardinality({ i \in 1..Len(listed) : listed[i].unit_id = id })

\* every row of the built table has a race, one that lists the row's unit
\* with the row's tier
EveryRowHasRace ==
    \A i \in 1..Len(fetched.df_units) :
        LET row == fetched.df_units[i]
        IN  /\ row.race # "NaN"
            /\ \E r \in 1..Len(fetched.response_races) :
                /\ fetched.response_races[r].name = row.race
                /\ \E u \in 1..Len(fetched.response_races[r].units) :
                    fetched.response_races[r].units[u] = [tier |-> row.tier, id |-> row.id]

\* C12 as stated: once get_unit_data has built the registry, every row has a
\* race assigned (a fetched unit listed by no race is absent) and no two rows
\* share a unit id, whatever the two documents, those that list a unit id
\* under more than one race included.
C12_RaceAssignedUniqueId ==
    Built =>
        /\ EveryRowHasRace
        /\ \A i, j \in 1..Len(fetched.df_units) :
            fetched.df_units[i].id = fetched.df_units[j].id => i = j

\* C12, amended: once get_unit_data has built the registry, every row has a
\* race assigned (a fetched unit listed by no race is absent), and a unit id
\* has one row for every pair of a record of units.json with that id and a
\* listing of that id in races.json; two rows share a unit id exactly when
\* the id is listed more than once, under one race or several, or has more
\* than one record.
C12_RowPerListing ==
    Built =>
        /\ EveryRowHasRace
        /\ \A id \in DocIds :
            RowsOfId(fetched.df_units, id) = RowsOfId(fetched.units_json, id) * Listings(id)
        /\ (\E i, j \in 1..Len(fetched.df_units) :
                i # j /\ fetched.df_units[i].id = fetched.df_units[j].id)
           <=> (\E id \in DocIds :
                    /\ RowsOfId(fetched.units_json, id) > 0
                    /\ Listings(id) > 0
                    /\ RowsOfId(fetched.units_json, id) * Listings(id) > 1)

\* a registry built from a unit two races list and a unit no race lists: two
\* rows for the first, of different races, and none for the second
C12_Witness ==
    /\ Built
    /\ fetched.units_json = << [id |-> "AHBX"], [id |-> "ASKL"] >>
    /\ Listings("AHBX") = 2
    /\ Listings("ASKL") = 0
    /\ Len(fetched.df_units) = 2
    /\ fetched.df_units[1].id = "AHBX"
    /\ fetched.df_units[2].id = "AHBX"
    /\ fetched.df_units[1].race # fetched.df_units[2].race

\* what a press of the button does to the selection, as the claim states it
ReverseStep ==
    PressReverse =>
        IF Len(enemy_race) > 0
        THEN /\ player_race' = enemy_race[1]
             /\ enemy_race' = <<player_race>>
             /\ Len(enemy_race') = 1
        ELSE /\ player_race' = player_race
             /\ enemy_race' = enemy_race

\* whether two presses in a row, from this state, give the selection back
TwiceRestores ==
    LET once == Reversed(player_race, enemy_race)
        twice == Reversed(once.player_race, once.enemy_race)
    IN  twice = [player_race |-> player_race, enemy_race |-> enemy_race]

\* C13 as stated: a press with a non-empty enemy list makes the first enemy
\* race the player race and the enemy list the one-element list of the
\* previous player race, a press with an empty enemy list changes nothing,
\* and two presses restore the selection exactly when one enemy race was
\* selected.
C13_TwiceRestoresWhenOne ==
    /\ Reversed(player_race, enemy_race) =
            (IF Len(enemy_race) > 0
             THEN [player_race |-> enemy_race[1], enemy_race |-> <<player_race>>]
             ELSE [player_race |-> player_race, enemy_race |-> enemy_race])
    /\ TwiceRestores <=> Len(enemy_race) = 1

\* C13, amended: a press with a non-empty enemy list makes the first enemy
\* race the player race and the enemy list the one-element list of the
\* previous player race (the other enemy races are dropped), so that the
\* enemy list then has length one; a press with an empty enemy list changes
\* nothing; and two presses restore the selection exactly when at most one
\* enemy race was selected.
C13_ReverseMatchup ==
    /\ [][ReverseStep]_vars
    /\ [](TwiceRestores <=> Len(enemy_race) <= 1)

\* several enemy races selected, none of them the player's: a press drops
\* all but the first, and a second press does not bring them back
C13_Witness ==
    /\ Len(enemy_race) = 3
    /\ player_race \notin Elements(enemy_race)
    /\ Reversed(player_race, enemy_race).enemy_race = <<player_race>>
    /\ ~TwiceRestores

=============================================================================
